---- MODULE Spec2Model ----
(***************************************************************************)
(* Model of data_structures/bank_account.py: the class BankAccount, one    *)
(* object held by one caller.                                              *)
(*                                                                         *)
(* balance and the amounts are Python floats (annotated `float`).  They    *)
(* are modelled as a binary floating-point format with the structure of    *)
(* IEEE-754 binary64 at reduced size: MantBits bits of significand, the    *)
(* exponents 0..MaxExp, round-to-nearest ties-to-even, overflow to an      *)
(* infinity, the two infinities and NaN.  A finite value is the integer    *)
(* number of smallest units it holds.  The text the methods print is not   *)
(* state of the object and is not modelled.                                *)
(***************************************************************************)
EXTENDS Integers, FiniteSets

\* Bounds of the model.
MantBits == 2
MaxExp == 1
MaxAccountNumber == 2

VARIABLES
    exists,          \* TRUE once a BankAccount object has been constructed
    account_number,  \* self.__account_number
    balance,         \* self.balance
    op,              \* the last call made
    arg_number,      \* its account_number argument (__init__)
    arg_amount,      \* its balance / amount / assigned value argument
    result,          \* what the call returned or raised
    returned,        \* the int returned by get_account_number
    old_balance,     \* self.balance when the last call started
    given_number,    \* the account_number the object was constructed with
    given_balance    \* the balance the object was constructed with

vars == <<exists, account_number, balance, op, arg_number, arg_amount,
          result, returned, old_balance, given_number, given_balance>>

----------------------------------------------------------------------------
\* Floating-point values.

RECURSIVE Pow2(_)
Pow2(n) ==
    IF n = 0 THEN 1 ELSE 2 * Pow2(n - 1)

\* The largest finite float: significand all ones at the largest exponent.
MaxFinite ==
    (Pow2(MantBits) - 1) * Pow2(MaxExp)

Fin(n) ==
    [k |-> "fin", v |-> n]

Inf ==
    [k |-> "inf", v |-> 1]

NegInf ==
    [k |-> "inf", v |-> -1]

NaN ==
    [k |-> "nan", v |-> 0]

Zero ==
    Fin(0)

\* The non-negative integers that are floats: m * 2^e, m < 2^MantBits.
FiniteMags ==
    { m * Pow2(e) : m \in 0..(Pow2(MantBits) - 1), e \in 0..MaxExp }

\* Every float value.
Floats ==
    { Fin(n) : n \in FiniteMags } \cup { Fin(-n) : n \in FiniteMags }
        \cup {Inf, NegInf, NaN}

Abs(n) ==
    IF n < 0 THEN -n ELSE n

\* The exponent at which magnitude n is rounded: the least e with
\* n < 2^(MantBits + e).
RECURSIVE ExpOf(_, _)
ExpOf(n, e) ==
    IF n < Pow2(MantBits + e) THEN e ELSE ExpOf(n, e + 1)

\* Round-to-nearest, ties to the even significand, of a magnitude n >= 0.
RoundMag(n) ==
    LET q  == Pow2(ExpOf(n, 0))
        lo == (n \div q) * q
        r  == n - lo
    IN  IF 2 * r < q THEN lo
        ELSE IF 2 * r > q THEN lo + q
        ELSE IF (lo \div q) % 2 = 0 THEN lo ELSE lo + q

\* The float an exact integer rounds to; beyond MaxFinite it is an infinity.
Round(x) ==
    LET m == RoundMag(Abs(x))
    IN  IF m > MaxFinite
        THEN (IF x < 0 THEN NegInf ELSE Inf)
        ELSE Fin(IF x < 0 THEN -m ELSE m)

\* The position of a non-NaN float on the number line.
Key(a) ==
    IF a.k = "inf" THEN a.v * (MaxFinite + 1) ELSE a.v

\* Python's comparisons of floats: every comparison with NaN is False.
FLt(a, b) ==
    a.k # "nan" /\ b.k # "nan" /\ Key(a) < Key(b)

FLe(a, b) ==
    a.k # "nan" /\ b.k # "nan" /\ Key(a) <= Key(b)

FGt(a, b) ==
    FLt(b, a)

FGe(a, b) ==
    FLe(b, a)

FEq(a, b) ==
    a.k # "nan" /\ b.k # "nan" /\ a = b

FNeg(a) ==
    [k |-> a.k, v |-> -a.v]

\* Python's a + b on floats.
FAdd(a, b) ==
    IF a.k = "nan" \/ b.k = "nan" THEN NaN
    ELSE IF a.k = "inf" /\ b.k = "inf" THEN (IF a.v = b.v THEN a ELSE NaN)
    ELSE IF a.k = "inf" THEN a
    ELSE IF b.k = "inf" THEN b
    ELSE Round(a.v + b.v)

\* Python's a - b on floats.
FSub(a, b) ==
    FAdd(a, FNeg(b))

----------------------------------------------------------------------------
\* Arguments a caller can pass.

\* account_number arguments: ints, and non-ints (floats) of the same value.
Numbers ==
    [int : BOOLEAN, n : (-1)..MaxAccountNumber]

NoNumber ==
    [int |-> TRUE, n |-> 0]

Init ==
    /\ exists = FALSE
    /\ account_number = 0
    /\ balance = Zero
    /\ op = "none"
    /\ arg_number = NoNumber
    /\ arg_amount = Zero
    /\ result = "none"
    /\ returned = 0
    /\ old_balance = Zero
    /\ given_number = 0
    /\ given_balance = Zero

----------------------------------------------------------------------------
\* The conditions and updates of the methods.

\* __init__: not isinstance(account_number, int) or account_number <= 0
BadNumberOffByOne(number) ==
    ~number.int \/ number.n < 0

BadNumber(number) ==
    ~number.int \/ number.n <= 0

\* __init__: balance < 0
BadBalanceRejectsZero(initial) ==
    FLe(initial, Zero)

BadBalance(initial) ==
    FLt(initial, Zero)

\* deposit: amount <= 0
DepositAcceptsZero(amount) ==
    FLt(amount, Zero)

BadDeposit(amount) ==
    FLe(amount, Zero)

\* withdraw: amount <= 0
BadWithdrawal(amount) ==
    FLe(amount, Zero)

\* withdraw: amount > self.balance
InsufficientRejectsAll(amount) ==
    FGe(amount, balance)

InsufficientNotChecked(amount) ==
    FALSE

Insufficient(amount) ==
    FGt(amount, balance)

\* deposit: self.balance += amount
CreditOverwrites(amount) ==
    amount

Credit(amount) ==
    FAdd(balance, amount)

\* withdraw: self.balance -= amount
DebitAdds(amount) ==
    FAdd(balance, amount)

Debit(amount) ==
    FSub(balance, amount)

\* What every call records about itself.
Called(name, number, amount, res, ret) ==
    /\ op' = name
    /\ arg_number' = number
    /\ arg_amount' = amount
    /\ result' = res
    /\ returned' = ret
    /\ old_balance' = balance

----------------------------------------------------------------------------
\* The operations.

\* account = BankAccount(number, initial), while the caller holds no account.
\* A raise leaves the caller without an object.
__init__(number, initial) ==
    /\ ~exists
    /\ IF BadNumber(number) \/ BadBalance(initial)
       THEN /\ Called("__init__", number, initial, "ValueError", 0)
            /\ UNCHANGED <<exists, account_number, balance,
                           given_number, given_balance>>
       ELSE /\ exists' = TRUE
            /\ account_number' = number.n
            /\ balance' = initial
            /\ given_number' = number.n
            /\ given_balance' = initial
            /\ Called("__init__", number, initial, "None", 0)

deposit(amount) ==
    /\ exists
    /\ IF BadDeposit(amount)
       THEN /\ Called("deposit", NoNumber, amount, "False", 0)
            /\ UNCHANGED balance
       ELSE /\ balance' = Credit(amount)
            /\ Called("deposit", NoNumber, amount, "True", 0)
    /\ UNCHANGED <<exists, account_number, given_number, given_balance>>

withdraw(amount) ==
    /\ exists
    /\ IF BadWithdrawal(amount) \/ Insufficient(amount)
       THEN /\ Called("withdraw", NoNumber, amount, "False", 0)
            /\ UNCHANGED balance
       ELSE /\ balance' = Debit(amount)
            /\ Called("withdraw", NoNumber, amount, "True", 0)
    /\ UNCHANGED <<exists, account_number, given_number, given_balance>>

\* check_balance that stores the balance it displays, truncated.
check_balance_truncates ==
    /\ exists
    /\ balance' = (IF balance.k = "fin" THEN Fin(2 * (balance.v \div 2))
                   ELSE balance)
    /\ Called("check_balance", NoNumber, Zero, "None", 0)
    /\ UNCHANGED <<exists, account_number, given_number, given_balance>>

check_balance ==
    /\ exists
    /\ Called("check_balance", NoNumber, Zero, "None", 0)
    /\ UNCHANGED <<exists, account_number, balance, given_number,
                   given_balance>>

get_account_number ==
    /\ exists
    /\ Called("get_account_number", NoNumber, Zero, "int", account_number)
    /\ UNCHANGED <<exists, account_number, balance, given_number,
                   given_balance>>

repr_resets ==
    /\ exists
    /\ balance' = Zero
    /\ Called("__repr__", NoNumber, Zero, "str", 0)
    /\ UNCHANGED <<exists, account_number, given_number, given_balance>>

__repr__ ==
    /\ exists
    /\ Called("__repr__", NoNumber, Zero, "str", 0)
    /\ UNCHANGED <<exists, account_number, balance, given_number,
                   given_balance>>

\* account.balance = value, by the caller: balance is a public attribute.
assign_balance(value) ==
    /\ exists
    /\ balance' = value
    /\ Called("assign_balance", NoNumber, value, "None", 0)
    /\ UNCHANGED <<exists, account_number, given_number, given_balance>>

Next ==
    \/ \E number \in Numbers, initial \in Floats : __init__(number, initial)
    \/ \E amount \in Floats : deposit(amount)
    \/ \E amount \in Floats : withdraw(amount)
    \/ check_balance
    \/ get_account_number
    \/ __repr__

\* A caller that uses the methods only.
Spec ==
    Init /\ [][Next]_vars

\* A caller that also assigns the public attribute.
NextCaller ==
    \/ Next
    \/ \E value \in Floats : assign_balance(value)

SpecCaller ==
    Init /\ [][NextCaller]_vars

----------------------------------------------------------------------------
\* Exact arithmetic, for the claims that speak of exact sums: the sum of two
\* values as an extended real, not rounded to a float.  Infinity minus
\* infinity has no value and is NaN, which equals nothing.
ExactSum(a, b) ==
    IF a.k = "nan" \/ b.k = "nan" THEN NaN
    ELSE IF a.k = "inf" /\ b.k = "inf" THEN (IF a.v = b.v THEN a ELSE NaN)
    ELSE IF a.k = "inf" THEN a
    ELSE IF b.k = "inf" THEN b
    ELSE Fin(a.v + b.v)

Inquiries ==
    {"check_balance", "get_account_number", "__repr__"}

----------------------------------------------------------------------------
\* C1: an account constructed with identifier > 0 and initial balance >= 0
\* has balance >= 0 in every state the methods can bring it to, whatever
\* numeric amounts they are called with.
C1_BalanceNeverNegative ==
    (exists /\ given_number > 0 /\ FGe(given_balance, Zero))
        => FGe(balance, Zero)

\* C2: construction fails when the identifier is <= 0, fails when the initial
\* balance is negative, and succeeds keeping both values exactly when the
\* identifier is an int > 0 and the balance is >= 0; a failure raises and
\* produces no account.
C2_Construction ==
    op = "__init__" =>
        /\ arg_number.n <= 0 => result = "ValueError"
        /\ FLt(arg_amount, Zero) => result = "ValueError"
        /\ (arg_number.int /\ arg_number.n > 0 /\ FGe(arg_amount, Zero))
              => /\ result = "None"
                 /\ exists
                 /\ account_number = arg_number.n
                 /\ balance = arg_amount
        /\ result = "ValueError" => ~exists
        /\ result \in {"None", "ValueError"}

C2_Witness ==
    /\ op = "__init__"
    /\ result = "None"
    /\ account_number = MaxAccountNumber
    /\ FGt(balance, Zero)

\* The case C3 and C4 split: a withdraw call with 0 < amount <= balance.
Covered ==
    /\ op = "withdraw"
    /\ FLt(Zero, arg_amount)
    /\ FLe(arg_amount, old_balance)

\* C3 as stated: withdraw(amount) with 0 < amount <= balance returns True and
\* the new balance equals the old balance minus amount exactly.
C3_ExactDifference ==
    Covered =>
        /\ result = "True"
        /\ FEq(balance, ExactSum(old_balance, FNeg(arg_amount)))

\* C3 amended: withdraw(amount) with 0 < amount <= balance (amount = balance
\* included) returns True and the new balance is the floating-point result
\* of old balance - amount.
C3_FloatDifference ==
    Covered =>
        /\ result = "True"
        /\ balance = FSub(old_balance, arg_amount)

C3_Witness ==
    /\ Covered
    /\ arg_amount = old_balance
    /\ result = "True"
    /\ balance = Zero

\* C4: withdraw(amount) with amount > balance returns False, raises nothing
\* and leaves balance unchanged.
C4_InsufficientFunds ==
    (op = "withdraw" /\ FGt(arg_amount, old_balance))
        => (result = "False" /\ balance = old_balance)

C4_Witness ==
    /\ op = "withdraw"
    /\ FGt(arg_amount, old_balance)
    /\ FGt(old_balance, Zero)
    /\ result = "False"
    /\ balance = old_balance

\* C5: deposit(amount) and withdraw(amount) with amount <= 0, zero included,
\* return False, raise nothing and leave balance unchanged, whatever the
\* balance is.
C5_NonPositiveAmount ==
    (op \in {"deposit", "withdraw"} /\ FLe(arg_amount, Zero))
        => (result = "False" /\ balance = old_balance)

C5_Witness ==
    /\ op = "deposit"
    /\ arg_amount = Zero
    /\ result = "False"
    /\ FGt(balance, Zero)

\* C6 as stated: deposit(amount) with amount > 0 on a valid account returns
\* True and the new balance equals the old balance plus amount exactly.
C6_ExactSum ==
    (op = "deposit" /\ FGt(arg_amount, Zero) /\ FGe(old_balance, Zero))
        => /\ result = "True"
           /\ FEq(balance, ExactSum(old_balance, arg_amount))

\* C6 amended: deposit(amount) with amount > 0 returns True and the new
\* balance is the floating-point result of old balance + amount.
C6_FloatSum ==
    (op = "deposit" /\ FGt(arg_amount, Zero))
        => /\ result = "True"
           /\ balance = FAdd(old_balance, arg_amount)

C6_Witness ==
    /\ op = "deposit"
    /\ FGt(arg_amount, Zero)
    /\ result = "True"
    /\ FEq(balance, ExactSum(old_balance, arg_amount))
    /\ FGt(old_balance, Zero)

\* C7 as stated: after construction no step open to a caller of the class
\* changes balance, other than deposit and withdraw.
C7_OnlyDepositWithdraw ==
    [][(exists /\ balance' # balance)
          => op' \in {"deposit", "withdraw"}]_vars

\* C7 amended: after construction balance is changed by deposit, by withdraw
\* and by the caller assigning the public attribute, and by no other step.
C7_OnlyDepositWithdrawAssign ==
    [][(exists /\ balance' # balance)
          => op' \in {"deposit", "withdraw", "assign_balance"}]_vars

C7_Witness ==
    /\ op = "assign_balance"
    /\ balance # old_balance
    /\ FLt(balance, Zero)

\* C8: the identifier never changes and is > 0: after any deposit and
\* withdraw calls get_account_number returns the identifier given at
\* construction.
C8_IdentifierImmutable ==
    exists =>
        /\ account_number = given_number
        /\ account_number > 0
        /\ op = "get_account_number" => returned = given_number

C8_Witness ==
    /\ op = "get_account_number"
    /\ returned = MaxAccountNumber
    /\ balance # given_balance

\* C9: check_balance, get_account_number and __repr__ never change balance
\* or the identifier, in any state and in any order.
C9_InquiriesChangeNothing ==
    [][op' \in Inquiries
          => (balance' = balance /\ account_number' = account_number)]_vars

C9_Witness ==
    /\ op = "check_balance"
    /\ balance = old_balance
    /\ balance # given_balance
    /\ account_number = given_number

\* C10 as stated, in its second form: a deposit or withdraw call changes
\* balance if and only if it returns True.
C10_ChangesIffTrue ==
    op \in {"deposit", "withdraw"}
        => ((balance # old_balance) <=> (result = "True"))

\* C10 amended: a call that returns False leaves balance unchanged and a
\* call that returns True replaces balance by the floating-point result of
\* balance + amount (deposit) or balance - amount (withdraw); so balance
\* changes only if the call returns True.
C10_FloatLedger ==
    op \in {"deposit", "withdraw"} =>
        /\ result \in {"True", "False"}
        /\ result = "False" => balance = old_balance
        /\ (result = "True" /\ op = "deposit")
              => balance = FAdd(old_balance, arg_amount)
        /\ (result = "True" /\ op = "withdraw")
              => balance = FSub(old_balance, arg_amount)
        /\ balance # old_balance => result = "True"

\* A deposit that returned True and left a finite balance as it was.
C10_Witness ==
    /\ op = "deposit"
    /\ result = "True"
    /\ arg_amount.k = "fin"
    /\ balance.k = "fin"
    /\ balance = old_balance

====
